---- MODULE Spec2Model ----
(***************************************************************************)
(* A model of the VLFeat KD-forest (vl/kdtree.c, vl/kdtree.h): forest      *)
(* construction, the searcher list, and the best-bin-first query.          *)
(*                                                                         *)
(* Numbers.  The C code works on doubles.  The model is exact fixed point: *)
(* a coordinate c is held as the integer Scale * c, where Scale is the     *)
(* least common multiple of 1..MaxN, so that every slice mean (a sum of    *)
(* at most MaxN coordinates divided by the slice length) is an integer.    *)
(* Every distance-like quantity (leaf distances, saveDist, the keys of the *)
(* frontier heap) is held in units of 1/Scale^2: a squared difference of   *)
(* two held coordinates is already in that unit, an L1 distance is the sum *)
(* of absolute held differences times Scale.                               *)
(*                                                                         *)
(* Rounding.  In SpecNoise alone the computed mean and variance of a slice *)
(* are off their exact values by a rounding error of up to MaxNoise held   *)
(* units, less than the distance between any two exact values that differ, *)
(* so that an error can only decide a comparison between equal values.     *)
(*                                                                         *)
(* Arrays are functions on 0..n-1, as in C.                                *)
(***************************************************************************)
EXTENDS Integers, Sequences, FiniteSets, TLC

\* ---------------------------------------------------------------- bounds
MaxN == 4          \* points of a data set
MaxDim == 2        \* dimension of the data
MaxScalars == 6    \* scalars of a data set: numData * dimension
MaxVal == 2        \* coordinates are 0 .. MaxVal
MaxTrees == 2
MaxK == 2          \* neighbours asked for
MaxBudget == 2     \* values of searchMaxNumComparisons
MaxQueries == 2    \* queries run on one searcher
MaxSearchers == 3   \* addresses a searcher record may get
MaxAllocs == 4      \* calls of vl_kdforest_new_searcher on one forest
MaxNoise == 1       \* size of a rounding error, in held units

\* ------------------------------------------------------ program constants
VL_KDTREE_SPLIT_HEAP_SIZE == 5

NULL == 0
NaN == "NaN"
VL_KDTREE_MEDIAN == "MEDIAN"
VL_KDTREE_MEAN == "MEAN"
VlDistanceL1 == "L1"
VlDistanceL2 == "L2"

\* vl_uindex is an unsigned type: arithmetic on it wraps.
UIndexBits == 16
UIndexMod == 2 ^ UIndexBits

VL_MIN(a, b) == IF a < b THEN a ELSE b

RECURSIVE Gcd(_, _)
Gcd(a, b) == IF b = 0 THEN a ELSE Gcd(b, a % b)

RECURSIVE LcmUpTo(_)
LcmUpTo(n) == IF n <= 1 THEN 1 ELSE (LcmUpTo(n - 1) * n) \div Gcd(LcmUpTo(n - 1), n)

Scale == LcmUpTo(MaxN)

Abs(x) == IF x < 0 THEN -x ELSE x

\* VL_INFINITY_F: above every coordinate of the data and of the queries
VL_INFINITY_F == Scale * (MaxVal + 2)
MinusInf == 0 - VL_INFINITY_F
PlusInf == VL_INFINITY_F

\* ------------------------------------------------------------- input sets
DataCoords == {Scale * c : c \in 0 .. MaxVal}
Points(dimension) == [0 .. dimension - 1 -> DataCoords]
Queries(dimension) == [0 .. dimension - 1 -> DataCoords]

\* A data set of numData points.  The builder starts from the identity
\* permutation and qsort may leave entries of equal key in any order, so
\* renaming the point indices maps runs to runs: data sets are drawn up to
\* that renaming, as the sequences that do not decrease in PointCode.
RECURSIVE PointCode(_, _)
PointCode(p, d) ==
  IF d < 0 THEN 0 ELSE p[d] + (Scale * (MaxVal + 1)) * PointCode(p, d - 1)

DatasetsOf(dimension, numData) ==
  {pts \in [0 .. numData - 1 -> Points(dimension)] :
     \A i \in 1 .. numData - 1 :
       PointCode(pts[i - 1], dimension - 1) <= PointCode(pts[i], dimension - 1)}

Datasets(dimension, maxN) ==
  UNION {DatasetsOf(dimension, n) :
           n \in {m \in 1 .. maxN : m * dimension <= MaxScalars}}

\* values of vl_rand_uint32: it is used modulo at most min(numTrees, 5), and
\* these values cover every residue
RandValues == 0 .. VL_MIN(MaxTrees, VL_KDTREE_SPLIT_HEAP_SIZE) - 1

\* ------------------------------------------------------------------ heaps
\* heap-def.h is instantiated three times (kdtree.c:94-107); VL_HEAP_cmp is
\* the difference of the keys below, so the smallest key is at index 0.
HeapKey(kind, e) ==
  CASE kind = "search" -> e.distanceLowerBound
    [] kind = "split" -> e.variance
    [] kind = "neighbor" -> 0 - e.distance

VL_HEAP_cmp(kind, v, x, y) == HeapKey(kind, v[x]) - HeapKey(kind, v[y])

VL_HEAP_swap(v, i, j) == [v EXCEPT ![i] = v[j], ![j] = v[i]]

\* moves the element at index towards the leaves
RECURSIVE VL_HEAP_up(_, _, _, _)
VL_HEAP_up(kind, v, heapSize, index) ==
  LET leftIndex == 2 * index + 1
      rightIndex == 2 * index + 2
  IN  IF leftIndex >= heapSize THEN v
      ELSE IF rightIndex >= heapSize
        THEN IF VL_HEAP_cmp(kind, v, index, leftIndex) > 0
               THEN VL_HEAP_swap(v, index, leftIndex) ELSE v
      ELSE IF VL_HEAP_cmp(kind, v, leftIndex, rightIndex) < 0
        THEN IF VL_HEAP_cmp(kind, v, index, leftIndex) > 0
               THEN VL_HEAP_up(kind, VL_HEAP_swap(v, index, leftIndex), heapSize, leftIndex)
               ELSE v
        ELSE IF VL_HEAP_cmp(kind, v, index, rightIndex) > 0
               THEN VL_HEAP_up(kind, VL_HEAP_swap(v, index, rightIndex), heapSize, rightIndex)
               ELSE v

\* moves the element at index towards the root
RECURSIVE VL_HEAP_down(_, _, _)
VL_HEAP_down(kind, v, index) ==
  IF index = 0 THEN v
  ELSE LET parentIndex == (index - 1) \div 2
       IN  IF VL_HEAP_cmp(kind, v, index, parentIndex) < 0
             THEN VL_HEAP_down(kind, VL_HEAP_swap(v, index, parentIndex), parentIndex)
             ELSE v

\* the element to push is already stored at v[heapSize]; the new size is heapSize + 1
VL_HEAP_push(kind, v, heapSize) == VL_HEAP_down(kind, v, heapSize)

\* the popped element ends at index heapSize - 1, which is the value returned
VL_HEAP_pop(kind, v, heapSize) ==
  LET n == heapSize - 1
      w == VL_HEAP_swap(v, 0, n)
  IN  IF n > 1 THEN VL_HEAP_up(kind, w, n, 0) ELSE w

VL_HEAP_update(kind, v, heapSize, index) ==
  VL_HEAP_down(kind, VL_HEAP_up(kind, v, heapSize, index), index)

\* the first n slots of an array
Prefix(v, n) == [i \in 0 .. n - 1 |-> v[i]]

\* an array with one more slot written at index n
Append0(v, n, e) == [i \in 0 .. n |-> IF i = n THEN e ELSE v[i]]

\* ------------------------------------------------------------------ state
VARIABLES
  forest,     \* the VlKDForest record (scalar fields), or its phase after deletion
  data,       \* the borrowed data set: point index -> dimension -> coordinate
  trees,      \* forest->trees: tree index -> VlKDTree
  splitHeap,  \* forest->splitHeapArray, the filled entries
  build,      \* the activation of vl_kdforest_build: pc, ti, maxNumNodes, call stack
  searchers,  \* the VlKDForestSearcher records, by address
  calls,      \* per searcher, the activation of vl_kdforest_query running on it
  heapMem     \* the allocator's view: the live blocks, and whether a freed block
              \* was freed again or read

vars == <<forest, data, trees, splitHeap, build, searchers, calls, heapMem>>

SearcherAddrs == 1 .. MaxSearchers

\* ------------------------------------------------------------ tree arena
NewNode(parentIndex) ==
  [parent |-> parentIndex, lowerChild |-> 0, upperChild |-> 0,
   splitDimension |-> 0, splitThreshold |-> 0,
   lowerBound |-> "uninit", upperBound |-> "uninit"]

\* the tree after vl_kdtree_node_new; the new node's index is the old numUsedNodes
vl_kdtree_node_new(tree, parentIndex) ==
  [tree EXCEPT !.numUsedNodes = tree.numUsedNodes + 1,
               !.nodes = Append0(tree.nodes, tree.numUsedNodes, NewNode(parentIndex))]

\* the assertion of vl_kdtree_node_new
NodeNewAssert(tree) == tree.numUsedNodes + 1 <= tree.numAllocatedNodes

\* ---------------------------------------------------------------- builder
Datum(di, d) == data[di][d]

RECURSIVE SumSlice(_, _, _, _, _)
SumSlice(dataIndex, d, i, dataEnd, square) ==
  IF i >= dataEnd THEN 0
  ELSE LET datum == Datum(dataIndex[i].index, d)
       IN  (IF square THEN datum * datum ELSE datum)
             + SumSlice(dataIndex, d, i + 1, dataEnd, square)

\* the rounding errors of the double arithmetic of this build over a slice of
\* n points: of the mean (kdtree.c:201) and of the variance (kdtree.c:202-203).
\* There is none where the build works on numbers that doubles hold exactly,
\* and none on two points: the sum of two equal doubles and its half are
\* exact, and two doubles that differ have a mean strictly between them.
Noise(n) ==
  IF "noise" \in DOMAIN build /\ n >= 3 THEN build.noise
  ELSE [mean |-> 0, variance |-> 0]

\* mean and variance of dimension d over the slice (kdtree.c:182-203)
SliceStats(dataIndex, d, dataBegin, dataEnd) ==
  LET n == dataEnd - dataBegin
      mean == SumSlice(dataIndex, d, dataBegin, dataEnd, FALSE) \div n
      secondMoment == SumSlice(dataIndex, d, dataBegin, dataEnd, TRUE) \div n
  IN  [dimension |-> d, mean |-> mean + Noise(n).mean,
       variance |-> secondMoment - mean * mean + Noise(n).variance]

\* faulty variant of SplitHeapStep: dimensions of zero variance are not skipped
SplitHeapStepNoSkip(h, cand, splitHeapSize) ==
  IF h.numNodes < splitHeapSize
    THEN [array |-> VL_HEAP_push("split", Append0(h.array, h.numNodes, cand), h.numNodes),
          numNodes |-> h.numNodes + 1]
  ELSE IF h.array[0].variance < cand.variance
    THEN [array |-> VL_HEAP_update("split", [h.array EXCEPT ![0] = cand], h.numNodes, 0),
          numNodes |-> h.numNodes]
  ELSE h

\* one pass of the loop over the dimensions: keep the splitHeapSize most
\* varying ones; h is [array, numNodes]
SplitHeapStep(h, cand, splitHeapSize) ==
  IF cand.variance = 0 THEN h
  ELSE IF h.numNodes < splitHeapSize
    THEN [array |-> VL_HEAP_push("split", Append0(h.array, h.numNodes, cand), h.numNodes),
          numNodes |-> h.numNodes + 1]
  ELSE IF h.array[0].variance < cand.variance
    THEN [array |-> VL_HEAP_update("split", [h.array EXCEPT ![0] = cand], h.numNodes, 0),
          numNodes |-> h.numNodes]
  ELSE h

RECURSIVE SplitHeapLoop(_, _, _, _, _, _)
SplitHeapLoop(h, dataIndex, d, dataBegin, dataEnd, splitHeapSize) ==
  IF d >= forest.dimension THEN h
  ELSE SplitHeapLoop(
         SplitHeapStep(h, SliceStats(dataIndex, d, dataBegin, dataEnd), splitHeapSize),
         dataIndex, d + 1, dataBegin, dataEnd, splitHeapSize)

ComputeSplitHeap(dataIndex, dataBegin, dataEnd, splitHeapSize) ==
  SplitHeapLoop([array |-> <<>>, numNodes |-> 0], dataIndex, 0,
                dataBegin, dataEnd, splitHeapSize)

\* the slice with the value field set to the coordinate along dimension d
WithValues(dataIndex, d, dataBegin, dataEnd) ==
  [i \in DOMAIN dataIndex |->
     IF dataBegin <= i /\ i < dataEnd
       THEN [index |-> dataIndex[i].index, value |-> Datum(dataIndex[i].index, d)]
       ELSE dataIndex[i]]

vl_kdtree_compare_index_entries(a, b) ==
  LET delta == a.value - b.value
  IN  IF delta < 0 THEN -1 ELSE IF delta > 0 THEN 1 ELSE 0

\* faulty variant of QsortResults: the slice is left in the order it had
QsortNothing(dataIndex, dataBegin, dataEnd) == {dataIndex}

\* qsort: every arrangement of the slice that the comparison accepts as sorted
\* (the order of entries that compare equal is unspecified).  Entries of equal
\* points are kept in index order: exchanging them only renames equal points.
QsortResults(dataIndex, dataBegin, dataEnd) ==
  LET S == dataBegin .. dataEnd - 1
      perms == {f \in Permutations(S) :
                  \A i \in S : i + 1 \in S =>
                    /\ vl_kdtree_compare_index_entries(dataIndex[f[i]], dataIndex[f[i + 1]]) <= 0
                    /\ data[dataIndex[f[i]].index] = data[dataIndex[f[i + 1]].index]
                         => dataIndex[f[i]].index < dataIndex[f[i + 1]].index}
  IN  {[i \in DOMAIN dataIndex |-> IF i \in S THEN dataIndex[f[i]] ELSE dataIndex[i]] :
         f \in perms}

\* the scan "for (splitIndex = dataBegin ; splitIndex < dataEnd && value <= threshold ; ++)"
RECURSIVE MeanSplitScan(_, _, _, _)
MeanSplitScan(dataIndex, splitIndex, dataEnd, threshold) ==
  IF splitIndex < dataEnd /\ dataIndex[splitIndex].value <= threshold
    THEN MeanSplitScan(dataIndex, splitIndex + 1, dataEnd, threshold)
    ELSE splitIndex

\* the switch on the thresholding method: [splitIndex, splitThreshold]
SplitChoice(method, dataIndex, dataBegin, dataEnd, mean) ==
  LET scanned == (MeanSplitScan(dataIndex, dataBegin, dataEnd, mean) - 1) % UIndexMod
      medianIndex == (dataBegin + dataEnd - 1) \div 2
  IN  IF method = VL_KDTREE_MEAN
         /\ dataBegin <= scanned /\ (scanned + 1) % UIndexMod < dataEnd
        THEN [splitIndex |-> scanned, splitThreshold |-> mean]
        ELSE [splitIndex |-> medianIndex, splitThreshold |-> dataIndex[medianIndex].value]

\* faulty variant of MakeLeaf: the end of the range is encoded one too far
MakeLeafEndOff(node, dataBegin, dataEnd) ==
  [node EXCEPT !.lowerChild = 0 - dataBegin - 1, !.upperChild = 0 - dataEnd - 2]

\* a leaf encodes its range in the child fields
MakeLeaf(node, dataBegin, dataEnd) ==
  [node EXCEPT !.lowerChild = 0 - dataBegin - 1, !.upperChild = 0 - dataEnd - 1]

CallFrame(nodeIndex, dataBegin, dataEnd, depth) ==
  [kind |-> "call", nodeIndex |-> nodeIndex,
   dataBegin |-> dataBegin, dataEnd |-> dataEnd, depth |-> depth]

UpperFrame(nodeIndex, dataBegin, dataEnd, depth) ==
  [kind |-> "upper", nodeIndex |-> nodeIndex,
   dataBegin |-> dataBegin, dataEnd |-> dataEnd, depth |-> depth]

Top(stack) == stack[Len(stack)]
Pop(stack) == SubSeq(stack, 1, Len(stack) - 1)

\* ------------------------------------------------------------ bounds pass
\* faulty variant of vl_kdtree_calc_bounds_recursively: the threshold is written
\* to the wrong end of the interval before each recursive call
RECURSIVE CalcBoundsSwapped(_, _, _)
CalcBoundsSwapped(nodes, nodeIndex, searchBounds) ==
  LET node == nodes[nodeIndex]
      i == node.splitDimension
      t == node.splitThreshold
      n1 == [nodes EXCEPT ![nodeIndex].lowerBound = searchBounds[2 * i],
                          ![nodeIndex].upperBound = searchBounds[2 * i + 1]]
      n2 == IF node.lowerChild > 0
              THEN CalcBoundsSwapped(
                     n1, node.lowerChild, [searchBounds EXCEPT ![2 * i] = t])
              ELSE n1
  IN  IF node.upperChild > 0
        THEN CalcBoundsSwapped(
               n2, node.upperChild, [searchBounds EXCEPT ![2 * i + 1] = t])
        ELSE n2

RECURSIVE vl_kdtree_calc_bounds_recursively(_, _, _)
vl_kdtree_calc_bounds_recursively(nodes, nodeIndex, searchBounds) ==
  LET node == nodes[nodeIndex]
      i == node.splitDimension
      t == node.splitThreshold
      n1 == [nodes EXCEPT ![nodeIndex].lowerBound = searchBounds[2 * i],
                          ![nodeIndex].upperBound = searchBounds[2 * i + 1]]
      n2 == IF node.lowerChild > 0
              THEN vl_kdtree_calc_bounds_recursively(
                     n1, node.lowerChild, [searchBounds EXCEPT ![2 * i + 1] = t])
              ELSE n1
  IN  IF node.upperChild > 0
        THEN vl_kdtree_calc_bounds_recursively(
               n2, node.upperChild, [searchBounds EXCEPT ![2 * i] = t])
        ELSE n2

\* faulty variant of InitialSearchBounds: the array is left zeroed
InitialSearchBoundsZero ==
  [j \in 0 .. 2 * forest.dimension - 1 |-> 0]

InitialSearchBounds ==
  [j \in 0 .. 2 * forest.dimension - 1 |-> IF j % 2 = 0 THEN MinusInf ELSE PlusInf]

\* ------------------------------------------------------ distance primitive
\* the comparison functions selected in vl_kdforest_new: squared L2, or L1
RECURSIVE SumDiff(_, _, _, _)
SumDiff(distance, x, y, d) ==
  IF d >= forest.dimension THEN 0
  ELSE (IF distance = VlDistanceL2
          THEN (x[d] - y[d]) * (x[d] - y[d])
          ELSE Scale * Abs(x[d] - y[d]))
        + SumDiff(distance, x, y, d + 1)

distanceFunction(distance, x, y) == SumDiff(distance, x, y, 0)

\* ------------------------------------------------------------ query engine
\* a slot of the caller's buffer that the query has not written
Unwritten == [index |-> -2, distance |-> "unwritten"]

IdleCall == [pc |-> "idle", numQueries |-> 0]

\* the roots of all trees pushed on the frontier (kdtree.c:766-774)
RECURSIVE PushRoots(_, _, _)
PushRoots(array, numNodes, ti) ==
  IF ti >= forest.numTrees THEN array
  ELSE PushRoots(
         VL_HEAP_push("search",
           Append0(array, numNodes, [tree |-> ti, nodeIndex |-> 0, distanceLowerBound |-> 0]),
           numNodes),
         numNodes + 1, ti + 1)

\* entry of vl_kdforest_query up to the loop (kdtree.c:748-774); a step of the
\* query is a pair [s |-> searcher record, c |-> activation].  The activation
\* remembers the points compared so far (compared), the nodes pushed on the
\* frontier so far (pushed) and the searcher record the call started from
\* (entry); the code holds none of these.
QueryEnter(maxNumComparisons, s, c, numNeighbors, query) ==
  [s |-> [s EXCEPT !.searchId = s.searchId + 1,
                   !.searchNumRecursions = 0,
                   !.searchNumComparisons = 0,
                   !.searchNumSimplifications = 0,
                   !.searchHeapArray = PushRoots(<<>>, 0, 0),
                   !.searchHeapNumNodes = forest.numTrees],
   c |-> [pc |-> "loop", numQueries |-> c.numQueries + 1,
          exactSearch |-> (maxNumComparisons = 0),
          neighbors |-> [i \in 0 .. numNeighbors - 1 |-> Unwritten],
          numNeighbors |-> numNeighbors, numAddedNeighbors |-> 0,
          query |-> query, tree |-> 0, nodeIndex |-> 0, dist |-> 0,
          iter |-> 0, compared |-> <<>>, ret |-> 0, entry |-> s,
          pushed |-> [ti \in 1 .. forest.numTrees |-> <<ti - 1, 0>>]]]

\* one pass of the head of the branch-and-bound loop (kdtree.c:777-801): leave
\* the loop, or pop the next search state and call the recursion on it
QueryLoopHead(maxNumComparisons, s, c) ==
  IF ~(c.exactSearch \/ s.searchNumComparisons < maxNumComparisons)
    THEN [s |-> s, c |-> [c EXCEPT !.pc = "sort"]]
  ELSE IF s.searchHeapNumNodes = 0
    THEN [s |-> s, c |-> [c EXCEPT !.pc = "sort"]]
  ELSE
    LET popped == VL_HEAP_pop("search", s.searchHeapArray, s.searchHeapNumNodes)
        n == s.searchHeapNumNodes - 1
        searchState == popped[n]
        s1 == [s EXCEPT !.searchHeapArray = Prefix(popped, n),
                        !.searchHeapNumNodes = n]
    IN  IF c.numAddedNeighbors = c.numNeighbors
           /\ c.neighbors[0].distance < searchState.distanceLowerBound
          THEN [s |-> [s1 EXCEPT !.searchNumSimplifications = s.searchNumSimplifications + 1],
                c |-> [c EXCEPT !.pc = "sort"]]
          ELSE [s |-> s1,
                c |-> [c EXCEPT !.pc = "rec", !.tree = searchState.tree,
                                !.nodeIndex = searchState.nodeIndex,
                                !.dist = searchState.distanceLowerBound]]

\* faulty variant of SaveDist: the contribution of the ancestor's split along
\* the same axis is not taken back
SaveDistNoCorrection(dist, x, x1, x2, x3) == dist + (x - x2) * (x - x2)

\* the sibling's lower bound (kdtree.c:689-706), always in squares
SaveDist(dist, x, x1, x2, x3) ==
  LET base == dist + (x - x2) * (x - x2)
  IN  IF x <= x2
        THEN IF x <= x1 THEN base - (x - x1) * (x - x1) ELSE base
        ELSE IF x > x3 THEN base - (x - x3) * (x - x3) ELSE base

\* whether the sibling is pushed on the frontier (kdtree.c:708)
PushSibling(c, saveDist) ==
  c.numAddedNeighbors < c.numNeighbors \/ c.neighbors[0].distance > saveDist

\* one activation of vl_kdforest_query_recursively (kdtree.c:593-621, 689-724):
\* at a leaf it starts the loop over the leaf's points, at an internal node it
\* saves the sibling and calls itself on the nearer child
QueryRecursively(s, c) ==
  LET node == trees[c.tree].nodes[c.nodeIndex]
      x == c.query[node.splitDimension]
      s1 == [s EXCEPT !.searchNumRecursions = s.searchNumRecursions + 1]
  IN  IF node.lowerChild < 0
        THEN [s |-> s1, c |-> [c EXCEPT !.pc = "leaf", !.iter = 0 - node.lowerChild - 1]]
        ELSE
          LET saveDist == SaveDist(c.dist, x, node.lowerBound, node.splitThreshold,
                                   node.upperBound)
              nextChild == IF x <= node.splitThreshold THEN node.lowerChild ELSE node.upperChild
              saveChild == IF x <= node.splitThreshold THEN node.upperChild ELSE node.lowerChild
              s2 == IF PushSibling(c, saveDist)
                      THEN [s1 EXCEPT
                              !.searchHeapArray =
                                 VL_HEAP_push("search",
                                   Append0(s.searchHeapArray, s.searchHeapNumNodes,
                                     [tree |-> c.tree, nodeIndex |-> saveChild,
                                      distanceLowerBound |-> saveDist]),
                                   s.searchHeapNumNodes),
                              !.searchHeapNumNodes = s.searchHeapNumNodes + 1]
                      ELSE s1
          IN  [s |-> s2,
               c |-> [c EXCEPT !.nodeIndex = nextChild,
                               !.pushed = IF PushSibling(c, saveDist)
                                            THEN Append(c.pushed, <<c.tree, saveChild>>)
                                            ELSE c.pushed]]

\* faulty variant of LeafLoopContinues: the budget is not looked at in a leaf
LeafLoopToEnd(maxNumComparisons, s, c, end) == c.iter < end

\* the condition of the leaf loop (kdtree.c:623-627)
LeafLoopContinues(maxNumComparisons, s, c, end) ==
  c.iter < end /\ (maxNumComparisons = 0 \/ s.searchNumComparisons < maxNumComparisons)

\* faulty variant of AlreadyVisited: the book is not looked at
NeverVisited(s, di) == FALSE

\* whether the point was already compared in this query (kdtree.c:633)
AlreadyVisited(s, di) == s.searchIdBook[di] = s.searchId

\* faulty variant of AddNeighbor: a full result set takes every compared point
\* in place of its worst one
AddNeighborAlways(c, di, dist) ==
  IF c.numAddedNeighbors < c.numNeighbors
    THEN [c EXCEPT
            !.neighbors = VL_HEAP_push("neighbor",
                            [c.neighbors EXCEPT ![c.numAddedNeighbors] =
                               [index |-> di, distance |-> dist]],
                            c.numAddedNeighbors),
            !.numAddedNeighbors = c.numAddedNeighbors + 1]
    ELSE [c EXCEPT
            !.neighbors = VL_HEAP_update("neighbor",
                            [c.neighbors EXCEPT ![0] = [index |-> di, distance |-> dist]],
                            c.numAddedNeighbors, 0)]

\* the result set after a compared point (kdtree.c:656-668)
AddNeighbor(c, di, dist) ==
  IF c.numAddedNeighbors < c.numNeighbors
    THEN [c EXCEPT
            !.neighbors = VL_HEAP_push("neighbor",
                            [c.neighbors EXCEPT ![c.numAddedNeighbors] =
                               [index |-> di, distance |-> dist]],
                            c.numAddedNeighbors),
            !.numAddedNeighbors = c.numAddedNeighbors + 1]
  ELSE IF c.neighbors[0].distance > dist
    THEN [c EXCEPT
            !.neighbors = VL_HEAP_update("neighbor",
                            [c.neighbors EXCEPT ![0] = [index |-> di, distance |-> dist]],
                            c.numAddedNeighbors, 0)]
  ELSE c

\* one pass of the loop over the points of a leaf (kdtree.c:623-672)
QueryLeaf(maxNumComparisons, s, c) ==
  LET tree == trees[c.tree]
      node == tree.nodes[c.nodeIndex]
      end == 0 - node.upperChild - 1
  IN  IF ~LeafLoopContinues(maxNumComparisons, s, c, end)
        THEN [s |-> s, c |-> [c EXCEPT !.pc = "loop"]]
        ELSE
          LET di == tree.dataIndex[c.iter].index
              c1 == [c EXCEPT !.iter = c.iter + 1]
          IN  IF AlreadyVisited(s, di)
                THEN [s |-> s, c |-> c1]
                ELSE
                  LET dist == distanceFunction(forest.distance, c.query, data[di])
                  IN  [s |-> [s EXCEPT !.searchIdBook[di] = s.searchId,
                                       !.searchNumComparisons = s.searchNumComparisons + 1],
                       c |-> AddNeighbor([c1 EXCEPT !.compared = Append(c.compared, di),
                                                   !.dist = dist],
                                         di, dist)]

\* the unfilled slots (kdtree.c:805-808)
FillSentinels(neighbors, numAddedNeighbors, numNeighbors) ==
  [i \in 0 .. numNeighbors - 1 |->
     IF i >= numAddedNeighbors THEN [index |-> -1, distance |-> NaN] ELSE neighbors[i]]

\* faulty variant of DrainNeighbors: the heap is left as it is
DrainNothing(neighbors, numAddedNeighbors) == neighbors

\* the drain of the neighbour heap (kdtree.c:810-812)
RECURSIVE DrainNeighbors(_, _)
DrainNeighbors(neighbors, numAddedNeighbors) ==
  IF numAddedNeighbors = 0 THEN neighbors
  ELSE DrainNeighbors(VL_HEAP_pop("neighbor", neighbors, numAddedNeighbors),
                      numAddedNeighbors - 1)

\* the end of vl_kdforest_query (kdtree.c:804-814)
QuerySort(s, c) ==
  [s |-> s,
   c |-> [c EXCEPT !.pc = "done",
                   !.neighbors = DrainNeighbors(
                       FillSentinels(c.neighbors, c.numAddedNeighbors, c.numNeighbors),
                       c.numAddedNeighbors),
                   !.ret = s.searchNumComparisons]]

\* the chain of calls of vl_kdforest_query_recursively down to a leaf
RECURSIVE QueryDescend(_, _)
QueryDescend(s, c) ==
  IF c.pc = "rec"
    THEN LET n == QueryRecursively(s, c) IN QueryDescend(n.s, n.c)
    ELSE [s |-> s, c |-> c]

\* one step of a running query: a pass of the loop head with the descent to
\* a leaf, a pass of the loop over the points of a leaf, or the final sort
QueryStep(maxNumComparisons, s, c) ==
  CASE c.pc = "loop" ->
         LET n == QueryLoopHead(maxNumComparisons, s, c) IN QueryDescend(n.s, n.c)
    [] c.pc = "leaf" -> QueryLeaf(maxNumComparisons, s, c)
    [] c.pc = "sort" -> QuerySort(s, c)

\* vl_kdforest_query run to its return from a given step
RECURSIVE QueryRun(_, _, _)
QueryRun(maxNumComparisons, s, c) ==
  IF c.pc = "done" THEN [s |-> s, c |-> c]
  ELSE LET n == QueryStep(maxNumComparisons, s, c)
       IN  QueryRun(maxNumComparisons, n.s, n.c)

\* ------------------------------------------------------------- allocator
\* a searcher owns three blocks: its record, its frontier array, its book
Blocks == {"rec", "arr", "book"}

FreshMem ==
  [live |-> [a \in SearcherAddrs |-> [b \in Blocks |-> FALSE]],
   numAllocs |-> 0, doubleFree |-> FALSE, useAfterFree |-> FALSE]

vl_malloc3(mem, a) ==
  [mem EXCEPT !.live[a] = [b \in Blocks |-> TRUE], !.numAllocs = mem.numAllocs + 1]

\* vl_free of a block; freeing NULL does nothing
vl_free(mem, a, b) ==
  IF a = NULL THEN mem
  ELSE IF mem.live[a][b] THEN [mem EXCEPT !.live[a][b] = FALSE]
  ELSE [mem EXCEPT !.doubleFree = TRUE]

\* a read of a field of the searcher record at address a
ReadRec(mem, a) ==
  IF mem.live[a]["rec"] THEN mem ELSE [mem EXCEPT !.useAfterFree = TRUE]

\* the content of an address that holds no searcher
NoSearcher ==
  [next |-> NULL, previous |-> NULL, searchId |-> 0, searchIdBook |-> <<>>,
   searchHeapArray |-> <<>>, searchHeapNumNodes |-> 0, searchNumComparisons |-> 0,
   searchNumRecursions |-> 0, searchNumSimplifications |-> 0,
   bookSize |-> 0, heapCapacity |-> 0, serial |-> 0]

\* ------------------------------------------------------------- searchers
RECURSIVE LastSearcher(_, _)
LastSearcher(recs, a) ==
  IF recs[a].next # NULL THEN LastSearcher(recs, recs[a].next) ELSE a

\* the record at address self after vl_kdforest_new_searcher (kdtree.c:362-392);
\* serial numbers the calls of vl_kdforest_new_searcher (the code has no such field)
NewSearcherRecord(previous) ==
  [next |-> NULL, previous |-> previous, searchId |-> 0,
   searchIdBook |-> [di \in 0 .. forest.numData - 1 |-> 0],
   searchHeapArray |-> <<>>, searchHeapNumNodes |-> 0, searchNumComparisons |-> 0,
   searchNumRecursions |-> 0, searchNumSimplifications |-> 0,
   bookSize |-> forest.numData, heapCapacity |-> forest.maxNumNodes,
   serial |-> heapMem.numAllocs + 1]

\* the records after linking self at the end of the list (kdtree.c:369-386)
LinkSearcher(recs, self) ==
  IF forest.numSearchers = 0
    THEN [recs EXCEPT ![self] = NewSearcherRecord(NULL)]
    ELSE LET lastSearcher == LastSearcher(recs, forest.headSearcher)
         IN  [recs EXCEPT ![lastSearcher].next = self,
                          ![self] = NewSearcherRecord(lastSearcher)]

\* faulty variant of UnlinkSearcher: the list is left as it is
UnlinkNothing(recs, head, a) == [recs |-> recs, head |-> head]

\* the records and the head after unlinking searcher (kdtree.c:406-416)
UnlinkSearcher(recs, head, a) ==
  LET p == recs[a].previous
      n == recs[a].next
  IN  IF p # NULL /\ n # NULL
        THEN [recs |-> [recs EXCEPT ![p].next = n, ![n].previous = p], head |-> head]
      ELSE IF p # NULL /\ n = NULL
        THEN [recs |-> [recs EXCEPT ![p].next = NULL], head |-> head]
      ELSE IF p = NULL /\ n # NULL
        THEN [recs |-> [recs EXCEPT ![n].previous = NULL], head |-> n]
      ELSE [recs |-> recs, head |-> NULL]

\* the outcome of abort()
Aborted == 0 - 1

\* the value read from forest->headSearcher: vl_kdforest_new does not assign
\* the field, which holds any pointer value until the first searcher is made
HeadSearcherRead ==
  IF forest.headSearcherAssigned THEN {forest.headSearcher}
  ELSE {NULL} \cup SearcherAddrs

\* the loop of vl_kdforest_get_searcher from lastSearcher at index sIdx: the
\* set of its outcomes, a searcher's address or Aborted; following next through
\* a pointer that is no searcher is undefined
RECURSIVE GetSearcherLoop(_, _, _)
GetSearcherLoop(lastSearcher, sIdx, pos) ==
  IF lastSearcher = NULL THEN {Aborted}
  ELSE IF sIdx = pos THEN {lastSearcher}
  ELSE IF ~heapMem.live[lastSearcher]["rec"] THEN {Aborted} \cup SearcherAddrs
  ELSE GetSearcherLoop(searchers[lastSearcher].next, sIdx + 1, pos)

vl_kdforest_get_searcher(pos) ==
  UNION {GetSearcherLoop(head, 0, pos) : head \in HeadSearcherRead}

\* the loop of vl_kdforest_delete over the searchers (kdtree.c:459-470)
RECURSIVE DeleteWalk(_, _, _)
DeleteWalk(mem, recs, underDeletion) ==
  LET m1 == ReadRec(mem, underDeletion)
      m2 == vl_free(vl_free(m1, underDeletion, "arr"), underDeletion, "book")
      nxt == recs[underDeletion].next
  IN  IF nxt # NULL
        THEN DeleteWalk(vl_free(ReadRec(m2, nxt), recs[nxt].previous, "rec"), recs, nxt)
        ELSE vl_free(m2, underDeletion, "rec")

\* ---------------------------------------------------------------- actions
\* The state after vl_kdforest_new (dataType, dimension, numTrees, distance).  The
\* function does not assign searchMaxNumComparisons nor headSearcher: the
\* former holds whatever the allocated memory held (any value up to
\* MaxBudget here), the latter is marked unassigned.
ForestNew(dimension, numTrees, distance, garbage) ==
  [phase |-> "new", dimension |-> dimension, numTrees |-> numTrees, distance |-> distance,
   numData |-> 0, thresholdingMethod |-> VL_KDTREE_MEDIAN,
   splitHeapSize |-> VL_MIN(numTrees, VL_KDTREE_SPLIT_HEAP_SIZE),
   splitHeapNumNodes |-> 0, maxNumNodes |-> 0, numSearchers |-> 0,
   searchMaxNumComparisons |-> garbage,
   headSearcher |-> NULL, headSearcherAssigned |-> FALSE]

InitWith(dimensionSet, numTreesSet, distanceSet, garbageSet) ==
  /\ \E dimension \in dimensionSet, numTrees \in numTreesSet,
        distance \in distanceSet, garbage \in garbageSet :
       forest = ForestNew(dimension, numTrees, distance, garbage)
  /\ data = <<>>
  /\ trees = <<>>
  /\ splitHeap = <<>>
  /\ build = [pc |-> "none"]
  /\ searchers = [a \in SearcherAddrs |-> NoSearcher]
  /\ calls = [a \in SearcherAddrs |-> IdleCall]
  /\ heapMem = FreshMem

NoQueryRunning == \A a \in SearcherAddrs : calls[a].pc = "idle"

\* vl_kdforest_set_thresholding_method, before the build
SetThresholdingMethod(method) ==
  /\ forest.phase = "new"
  /\ forest.thresholdingMethod # method
  /\ forest' = [forest EXCEPT !.thresholdingMethod = method]
  /\ UNCHANGED <<data, trees, splitHeap, build, searchers, calls, heapMem>>

\* vl_kdforest_set_max_num_comparisons, between queries
SetMaxNumComparisons(n) ==
  /\ forest.phase \in {"new", "built"}
  /\ NoQueryRunning
  /\ forest.searchMaxNumComparisons # n
  /\ forest' = [forest EXCEPT !.searchMaxNumComparisons = n]
  /\ UNCHANGED <<data, trees, splitHeap, build, searchers, calls, heapMem>>

\* vl_kdforest_build up to the loop over the trees (kdtree.c:538-541)
BuildBegin(numData, points) ==
  /\ forest.phase = "new"
  /\ forest.numSearchers = 0
  /\ forest' = [forest EXCEPT !.phase = "building", !.numData = numData]
  /\ data' = points
  /\ trees' = <<>>
  /\ build' = [pc |-> "tree", ti |-> 0, maxNumNodes |-> 0, stack |-> <<>>]
  /\ UNCHANGED <<splitHeap, searchers, calls, heapMem>>

\* vl_kdforest_build on data whose sums and quotients are not exact in
\* double arithmetic: every mean and every variance of the build is off by
\* the rounding error noise
BuildBeginRounded(numData, points, noise) ==
  /\ forest.phase = "new"
  /\ forest.numSearchers = 0
  /\ forest' = [forest EXCEPT !.phase = "building", !.numData = numData]
  /\ data' = points
  /\ trees' = <<>>
  /\ build' = [pc |-> "tree", ti |-> 0, maxNumNodes |-> 0, stack |-> <<>>,
               noise |-> noise]
  /\ UNCHANGED <<splitHeap, searchers, calls, heapMem>>

\* the body of the loop over the trees up to the call of the recursion
\* (kdtree.c:544-556)
BuildTreeBegin ==
  /\ forest.phase = "building"
  /\ build.pc = "tree"
  /\ build.ti < forest.numTrees
  /\ LET fresh == [nodes |-> <<>>, numUsedNodes |-> 0,
                   numAllocatedNodes |-> (2 * forest.numData - 1) % UIndexMod,
                   dataIndex |-> [di \in 0 .. forest.numData - 1 |->
                                    [index |-> di, value |-> 0]],
                   depth |-> 0]
     IN  /\ trees' = Append0(trees, build.ti, vl_kdtree_node_new(fresh, 0))
         /\ build' = [build EXCEPT !.pc = "rec",
                        !.stack = <<CallFrame(0, 0, forest.numData, 0)>>]
  /\ UNCHANGED <<forest, data, splitHeap, searchers, calls, heapMem>>

\* vl_kdtree_build_recursively on a slice that becomes a leaf: at most one
\* point (kdtree.c:172-177), or no dimension of non-zero variance
\* (kdtree.c:180-231)
BuildLeaf ==
  /\ forest.phase = "building"
  /\ build.pc = "rec"
  /\ build.stack # <<>>
  /\ Top(build.stack).kind = "call"
  /\ LET f == Top(build.stack)
         tree == trees[build.ti]
         small == (f.dataEnd - f.dataBegin) % UIndexMod <= 1
         h == IF small THEN [array |-> splitHeap, numNodes |-> 0]
              ELSE ComputeSplitHeap(tree.dataIndex, f.dataBegin, f.dataEnd,
                                    forest.splitHeapSize)
     IN  /\ h.numNodes = 0
         /\ trees' = [trees EXCEPT ![build.ti] =
                        [tree EXCEPT
                           !.depth = IF small /\ tree.depth < f.depth THEN f.depth
                                     ELSE tree.depth,
                           !.nodes[f.nodeIndex] =
                              MakeLeaf(tree.nodes[f.nodeIndex], f.dataBegin, f.dataEnd)]]
         /\ splitHeap' = IF small THEN splitHeap ELSE h.array
         /\ forest' = IF small THEN forest ELSE [forest EXCEPT !.splitHeapNumNodes = 0]
         /\ build' = [build EXCEPT !.stack = Pop(build.stack)]
  /\ UNCHANGED <<data, searchers, calls, heapMem>>

\* vl_kdtree_build_recursively on a slice that is split, up to the call on the
\* lower child (kdtree.c:180-288); rand is the value of vl_rand_uint32
BuildSplit(rand) ==
  /\ forest.phase = "building"
  /\ build.pc = "rec"
  /\ build.stack # <<>>
  /\ Top(build.stack).kind = "call"
  /\ LET f == Top(build.stack)
         tree == trees[build.ti]
         h == ComputeSplitHeap(tree.dataIndex, f.dataBegin, f.dataEnd, forest.splitHeapSize)
     IN  /\ (f.dataEnd - f.dataBegin) % UIndexMod > 1
         /\ h.numNodes > 0
         /\ LET splitDimension == h.array[rand % VL_MIN(forest.splitHeapSize, h.numNodes)]
                valued == WithValues(tree.dataIndex, splitDimension.dimension,
                                     f.dataBegin, f.dataEnd)
            IN  \E sorted \in QsortResults(valued, f.dataBegin, f.dataEnd) :
                  LET choice == SplitChoice(forest.thresholdingMethod, sorted,
                                            f.dataBegin, f.dataEnd, splitDimension.mean)
                      next == (choice.splitIndex + 1) % UIndexMod
                      t0 == [tree EXCEPT
                               !.dataIndex = sorted,
                               !.nodes[f.nodeIndex].splitDimension = splitDimension.dimension,
                               !.nodes[f.nodeIndex].splitThreshold = choice.splitThreshold]
                      t1 == [t0 EXCEPT !.nodes[f.nodeIndex].lowerChild = tree.numUsedNodes]
                  IN  /\ splitHeap' = h.array
                      /\ forest' = [forest EXCEPT !.splitHeapNumNodes = h.numNodes]
                      /\ IF NodeNewAssert(tree)
                           THEN /\ trees' = [trees EXCEPT ![build.ti] =
                                               vl_kdtree_node_new(t1, f.nodeIndex)]
                                /\ build' = [build EXCEPT !.stack =
                                     Pop(build.stack)
                                       \o <<UpperFrame(f.nodeIndex, next, f.dataEnd, f.depth + 1),
                                            CallFrame(tree.numUsedNodes, f.dataBegin, next,
                                                      f.depth + 1)>>]
                           ELSE /\ trees' = [trees EXCEPT ![build.ti] =
                                               [t0 EXCEPT !.numUsedNodes = tree.numUsedNodes + 1]]
                                /\ build' = [build EXCEPT !.pc = "abort"]
  /\ UNCHANGED <<data, searchers, calls, heapMem>>

\* the rest of vl_kdtree_build_recursively: the upper child is allocated and
\* the recursion called on it (kdtree.c:290-291)
BuildUpper ==
  /\ forest.phase = "building"
  /\ build.pc = "rec"
  /\ build.stack # <<>>
  /\ Top(build.stack).kind = "upper"
  /\ LET f == Top(build.stack)
         tree == trees[build.ti]
         t1 == [tree EXCEPT !.nodes[f.nodeIndex].upperChild = tree.numUsedNodes]
     IN  IF NodeNewAssert(tree)
           THEN /\ trees' = [trees EXCEPT ![build.ti] = vl_kdtree_node_new(t1, f.nodeIndex)]
                /\ build' = [build EXCEPT !.stack =
                     Pop(build.stack)
                       \o <<CallFrame(tree.numUsedNodes, f.dataBegin, f.dataEnd, f.depth)>>]
           ELSE /\ trees' = [trees EXCEPT ![build.ti] =
                               [tree EXCEPT !.numUsedNodes = tree.numUsedNodes + 1]]
                /\ build' = [build EXCEPT !.pc = "abort"]
  /\ UNCHANGED <<forest, data, splitHeap, searchers, calls, heapMem>>

\* faulty variant of BuildTreeEnd: the node count of the tree replaces the
\* running sum instead of being added to it
BuildTreeEndLastCount ==
  /\ forest.phase = "building"
  /\ build.pc = "rec"
  /\ build.stack = <<>>
  /\ build' = [build EXCEPT !.pc = "tree", !.ti = build.ti + 1,
                 !.maxNumNodes = trees[build.ti].numUsedNodes]
  /\ UNCHANGED <<forest, data, trees, splitHeap, searchers, calls, heapMem>>

\* the recursion on the root has returned (kdtree.c:557)
BuildTreeEnd ==
  /\ forest.phase = "building"
  /\ build.pc = "rec"
  /\ build.stack = <<>>
  /\ build' = [build EXCEPT !.pc = "tree", !.ti = build.ti + 1,
                 !.maxNumNodes = build.maxNumNodes + trees[build.ti].numUsedNodes]
  /\ UNCHANGED <<forest, data, trees, splitHeap, searchers, calls, heapMem>>

\* the bounds pass over all trees and the end of vl_kdforest_build
\* (kdtree.c:560-574)
BuildBounds ==
  /\ forest.phase = "building"
  /\ build.pc = "tree"
  /\ build.ti >= forest.numTrees
  /\ trees' = [ti \in DOMAIN trees |->
                 [trees[ti] EXCEPT !.nodes =
                    vl_kdtree_calc_bounds_recursively(trees[ti].nodes, 0, InitialSearchBounds)]]
  /\ forest' = [forest EXCEPT !.phase = "built", !.maxNumNodes = build.maxNumNodes]
  /\ build' = [pc |-> "none"]
  /\ UNCHANGED <<data, splitHeap, searchers, calls, heapMem>>

\* vl_kdforest_new_searcher; self is the address vl_malloc returns
NewSearcher(self) ==
  /\ forest.phase \in {"new", "built"}
  /\ ~heapMem.live[self]["rec"]
  /\ heapMem.numAllocs < MaxAllocs
  /\ calls[self].pc = "idle"
  /\ searchers' = LinkSearcher(searchers, self)
  /\ forest' = [forest EXCEPT
                  !.numSearchers = forest.numSearchers + 1,
                  !.headSearcher = IF forest.numSearchers = 0 THEN self ELSE @,
                  !.headSearcherAssigned = IF forest.numSearchers = 0 THEN TRUE ELSE @]
  /\ heapMem' = vl_malloc3(heapMem, self)
  /\ UNCHANGED <<data, trees, splitHeap, build, calls>>

\* vl_kdforest_delete_searcher
DeleteSearcher(searcher) ==
  /\ forest.phase \in {"new", "built"}
  /\ heapMem.live[searcher]["rec"]
  /\ calls[searcher].pc = "idle"
  /\ LET u == UnlinkSearcher(searchers, forest.headSearcher, searcher)
     IN  /\ searchers' = [u.recs EXCEPT ![searcher] = NoSearcher]
         /\ forest' = [forest EXCEPT !.numSearchers = forest.numSearchers - 1,
                                     !.headSearcher = u.head]
  /\ heapMem' = vl_free(vl_free(vl_free(heapMem, searcher, "arr"), searcher, "book"),
                        searcher, "rec")
  /\ UNCHANGED <<data, trees, splitHeap, build, calls>>

\* vl_kdforest_delete
DeleteForest ==
  /\ forest.phase \in {"new", "built"}
  /\ NoQueryRunning
  /\ heapMem' = IF forest.numSearchers > 0
                  THEN DeleteWalk(heapMem, searchers, forest.headSearcher)
                  ELSE heapMem
  /\ forest' = [forest EXCEPT !.phase = "deleted"]
  /\ searchers' = [a \in SearcherAddrs |-> NoSearcher]
  /\ data' = <<>>
  /\ trees' = <<>>
  /\ splitHeap' = <<>>
  /\ UNCHANGED <<build, calls>>

\* whether vl_kdforest_query may be called on the searcher: the forest is
\* built and the searcher was created for the built forest
Queryable(a) ==
  /\ forest.phase = "built"
  /\ heapMem.live[a]["rec"]
  /\ searchers[a].bookSize = forest.numData
  /\ searchers[a].heapCapacity = forest.maxNumNodes

\* the call of vl_kdforest_query and its entry (kdtree.c:748-774)
QueryBegin(a, numNeighbors, query) ==
  /\ Queryable(a)
  /\ calls[a].pc = "idle"
  /\ calls[a].numQueries < MaxQueries
  /\ LET n == QueryEnter(forest.searchMaxNumComparisons, searchers[a], calls[a],
                         numNeighbors, query)
     IN  /\ searchers' = [searchers EXCEPT ![a] = n.s]
         /\ calls' = [calls EXCEPT ![a] = n.c]
  /\ UNCHANGED <<forest, data, trees, splitHeap, build, heapMem>>

\* faulty variant of QueryAt: the visited book is one array shared by all
\* searchers of the forest
QueryAtSharedBook(a, pc) ==
  /\ calls[a].pc = pc
  /\ LET n == QueryStep(forest.searchMaxNumComparisons, searchers[a], calls[a])
     IN  /\ searchers' = [x \in SearcherAddrs |->
                            IF x = a THEN n.s
                            ELSE IF searchers[x].bookSize = n.s.bookSize
                              THEN [searchers[x] EXCEPT !.searchIdBook = n.s.searchIdBook]
                              ELSE searchers[x]]
         /\ calls' = [calls EXCEPT ![a] = n.c]
  /\ UNCHANGED <<forest, data, trees, splitHeap, build, heapMem>>

\* one step of a running query, at the given place of the code
QueryAt(a, pc) ==
  /\ calls[a].pc = pc
  /\ LET n == QueryStep(forest.searchMaxNumComparisons, searchers[a], calls[a])
     IN  /\ searchers' = [searchers EXCEPT ![a] = n.s]
         /\ calls' = [calls EXCEPT ![a] = n.c]
  /\ UNCHANGED <<forest, data, trees, splitHeap, build, heapMem>>

QueryLoop(a) == QueryAt(a, "loop")
QueryLeafLoop(a) == QueryAt(a, "leaf")
QueryReturn(a) == QueryAt(a, "sort")

\* vl_kdforest_query from its call to its return, as one step
Query(a, numNeighbors, query) ==
  /\ Queryable(a)
  /\ calls[a].pc = "idle"
  /\ calls[a].numQueries < MaxQueries
  /\ LET e == QueryEnter(forest.searchMaxNumComparisons, searchers[a], calls[a],
                         numNeighbors, query)
         n == QueryRun(forest.searchMaxNumComparisons, e.s, e.c)
     IN  /\ searchers' = [searchers EXCEPT ![a] = n.s]
         /\ calls' = [calls EXCEPT ![a] = n.c]
  /\ UNCHANGED <<forest, data, trees, splitHeap, build, heapMem>>

\* the caller has read the result; its buffer is gone
QueryDone(a) ==
  /\ calls[a].pc = "done"
  /\ calls' = [calls EXCEPT ![a] = [pc |-> "idle", numQueries |-> calls[a].numQueries]]
  /\ UNCHANGED <<forest, data, trees, splitHeap, build, searchers, heapMem>>

\* --------------------------------------------------------- specifications
BuildActions ==
  \/ BuildTreeBegin
  \/ BuildLeaf
  \/ \E rand \in RandValues : BuildSplit(rand)
  \/ BuildUpper
  \/ BuildTreeEnd
  \/ BuildBounds

QueryActions(a) ==
  \/ QueryLoop(a)
  \/ QueryLeafLoop(a)
  \/ QueryReturn(a)
  \/ QueryDone(a)

BuildFrom(maxN) ==
  \/ /\ forest.phase = "new"
     /\ \E points \in Datasets(forest.dimension, maxN) :
          BuildBegin(Cardinality(DOMAIN points), points)
  \/ BuildActions

MethodActions == \E m \in {VL_KDTREE_MEDIAN, VL_KDTREE_MEAN} : SetThresholdingMethod(m)

BudgetActions ==
  /\ forest.phase = "built"
  /\ \E n \in 0 .. MaxBudget : SetMaxNumComparisons(n)

\* One searcher and one query on it, each call of vl_kdforest_query a single
\* step; squared L2 distance.  The comparison budget is set after the build
\* (the build does not read the value the field holds before).
Init == InitWith(1 .. MaxDim, 1 .. MaxTrees, {VlDistanceL2}, {0})

Next ==
  \/ MethodActions
  \/ BuildFrom(MaxN)
  \/ BudgetActions
  \/ NewSearcher(1)
  \/ /\ calls[1].numQueries < 1
     /\ \E k \in 1 .. MaxK, q \in Queries(forest.dimension) : Query(1, k, q)

Spec == Init /\ [][Next]_vars

\* The same with the L1 distance, on the forests of two trees over at most two
\* points of the plane.
InitL1 == InitWith({MaxDim}, {MaxTrees}, {VlDistanceL1}, {0})

NextL1 ==
  \/ MethodActions
  \/ BuildFrom(2)
  \/ BudgetActions
  \/ NewSearcher(1)
  \/ /\ calls[1].numQueries < 1
     /\ \E k \in 1 .. MaxK, q \in Queries(forest.dimension) : Query(1, k, q)

SpecL1 == InitL1 /\ [][NextL1]_vars

\* One searcher running up to MaxQueries queries one after the other, each
\* query step by step; data on the line.
InitSteps == InitWith({1}, 1 .. MaxTrees, {VlDistanceL2}, {0})

NextSteps ==
  \/ MethodActions
  \/ BuildFrom(MaxN)
  \/ BudgetActions
  \/ NewSearcher(1)
  \/ \E k \in 1 .. MaxK, q \in Queries(forest.dimension) : QueryBegin(1, k, q)
  \/ QueryActions(1)

SpecSteps == InitSteps /\ [][NextSteps]_vars

\* Two searchers on one forest of two trees, their queries step by step and
\* interleaved in any order: the first runs up to MaxQueries queries, the
\* second one query.  No setter is called: the budget is what the field held
\* at creation, 0 (exact search) or 1.
InitPair == InitWith({1}, {MaxTrees}, {VlDistanceL2}, {0, 1})

NextPair ==
  \/ BuildFrom(2)
  \/ \E a \in 1 .. 2 : NewSearcher(a)
  \/ \E k \in 1 .. MaxK, q \in Queries(forest.dimension) : QueryBegin(1, k, q)
  \/ /\ calls[2].numQueries < 1
     /\ \E q \in Queries(forest.dimension) : QueryBegin(2, 1, q)
  \/ \E a \in 1 .. 2 : QueryActions(a)

SpecPair == InitPair /\ [][NextPair]_vars

\* The life of a forest on which no setter is called: the fields hold what
\* vl_kdforest_new left in them.  Searchers come and go in any order, at any
\* free address, and the forest is deleted at any moment.
InitLife == InitWith({1}, {1}, {VlDistanceL2}, 0 .. MaxBudget)

NextLife ==
  \/ BuildFrom(2)
  \/ \E a \in SearcherAddrs : NewSearcher(a)
  \/ \E a \in SearcherAddrs : DeleteSearcher(a)
  \/ DeleteForest
  \/ /\ calls[1].numQueries < 1
     /\ \E q \in Queries(forest.dimension) : Query(1, 1, q)
  \/ QueryDone(1)

SpecLife == InitLife /\ [][NextLife]_vars

\* The build alone, on points with one dimension more than the other
\* specifications have, so that the split heap has more candidates than room.
InitSplit == InitWith({MaxDim + 1}, 1 .. MaxTrees, {VlDistanceL2}, {0})

NextSplit ==
  \/ MethodActions
  \/ BuildFrom(2)

SpecSplit == InitSplit /\ [][NextSplit]_vars

\* The build alone, on the line, with rounding errors in the means and the
\* variances.
NoiseValues ==
  [mean : 0 - MaxNoise .. MaxNoise, variance : 0 - MaxNoise .. MaxNoise]

InitNoise == InitWith({1}, 1 .. MaxTrees, {VlDistanceL2}, {0})

NextNoise ==
  \/ MethodActions
  \/ /\ forest.phase = "new"
     /\ \E points \in Datasets(forest.dimension, MaxN - 1), noise \in NoiseValues :
          BuildBeginRounded(Cardinality(DOMAIN points), points, noise)
  \/ BuildActions

SpecNoise == InitNoise /\ [][NextNoise]_vars

\* ------------------------------------------------------------ properties
Range(f) == {f[i] : i \in DOMAIN f}

Slots(c) == 0 .. c.numNeighbors - 1

\* the point indices in the caller's buffer
ReturnedIndices(c) == {c.neighbors[i].index : i \in Slots(c)} \ {-1}

\* the number of slots that hold a point
NumReturned(c) == Cardinality({i \in Slots(c) : c.neighbors[i].index # -1})

\* the distance of the query of activation c to the point di, by the oracle
OracleDist(c, di) == distanceFunction(forest.distance, c.query, data[di])

\* brute force k-NN: the buffer holds min(k, N) distinct points, and none of
\* the points left out is nearer than one in it
AgreesWithBruteForce(c) ==
  LET all == 0 .. forest.numData - 1
      got == ReturnedIndices(c)
  IN  /\ got \subseteq all
      /\ NumReturned(c) = VL_MIN(c.numNeighbors, forest.numData)
      /\ Cardinality(got) = NumReturned(c)
      /\ \A q \in got, p \in all \ got : OracleDist(c, q) <= OracleDist(c, p)

\* the buffer holds the m best of the points compared, in ascending order of
\* their distances, then (-1, NaN)
SortedBestOfCompared(c) ==
  LET m == VL_MIN(c.numNeighbors, Len(c.compared))
      seen == Range(c.compared)
  IN  /\ c.numAddedNeighbors = m
      /\ \A i \in 0 .. m - 1 :
           /\ c.neighbors[i].index \in seen
           /\ c.neighbors[i].distance = OracleDist(c, c.neighbors[i].index)
      /\ \A i, j \in 0 .. m - 1 :
           i < j => /\ c.neighbors[i].distance <= c.neighbors[j].distance
                    /\ c.neighbors[i].index # c.neighbors[j].index
      /\ \A i \in m .. c.numNeighbors - 1 :
           c.neighbors[i] = [index |-> -1, distance |-> NaN]
      /\ \A di \in seen \ ReturnedIndices(c), i \in 0 .. m - 1 :
           c.neighbors[i].distance <= OracleDist(c, di)

\* the activation at the return of the query of activation c, had it been run
\* alone from the searcher record it started from with the comparison budget b
RunAlone(b, c) ==
  LET e == QueryEnter(b, c.entry, [pc |-> "idle", numQueries |-> c.numQueries - 1],
                      c.numNeighbors, c.query)
  IN  QueryRun(b, e.s, e.c).c

\* two buffers hold the same points at the same distances in the same slots
SameNeighbors(x, y) ==
  /\ DOMAIN x = DOMAIN y
  /\ \A i \in DOMAIN x :
       /\ x[i].index = y[i].index
       /\ x[i].index >= 0 => x[i].distance = y[i].distance

\* the worst distance of a full buffer
WorstDistance(c) == c.neighbors[c.numNeighbors - 1].distance

\* the range of points the leaf loop of the activation was last in
LeafEnd(c) == 0 - trees[c.tree].nodes[c.nodeIndex].upperChild - 1

\* C1: in exact mode (searchMaxNumComparisons = 0) under the squared L2
\* distance, a returned query holds min(k, N) distinct point indices and no
\* point left out is nearer to the query than a returned one
C1_ExactL2 ==
  \A a \in SearcherAddrs :
    (calls[a].pc = "done" /\ calls[a].exactSearch /\ forest.distance = VlDistanceL2)
      => AgreesWithBruteForce(calls[a])

\* an exact query on two trees over three points returned two neighbours
\* after the search was cut short by the lower bound
C1_Witness ==
  /\ calls[1].pc = "done"
  /\ calls[1].exactSearch
  /\ forest.numTrees = 2
  /\ forest.numData = 3
  /\ calls[1].numNeighbors = 2
  /\ searchers[1].searchNumSimplifications > 0
  /\ searchers[1].searchNumComparisons < forest.numData

\* C2: in exact mode under the L1 distance, a returned query holds the
\* min(k, N) nearest points under L1
C2_ExactL1 ==
  \A a \in SearcherAddrs :
    (calls[a].pc = "done" /\ calls[a].exactSearch /\ forest.distance = VlDistanceL1)
      => AgreesWithBruteForce(calls[a])

\* C3: on return, exact or approximate, the m collected neighbours are in
\* slots 0..m-1 in non-decreasing order of distance, each once and none
\* lost, and the slots m..k-1 hold index -1 and distance NaN
C3_SortedOutput ==
  \A a \in SearcherAddrs : calls[a].pc = "done" => SortedBestOfCompared(calls[a])

\* a query for two neighbours on a forest of one point returned, and one for
\* two neighbours that found them at different distances
C3_Witness ==
  /\ calls[1].pc = "done"
  /\ calls[1].numNeighbors = 2
  /\ \/ /\ forest.numData = 1
        /\ calls[1].neighbors[1].index = -1
     \/ /\ calls[1].numAddedNeighbors = 2
        /\ calls[1].neighbors[0].distance < calls[1].neighbors[1].distance

\* C4: within a query no point is compared twice, whatever the number of
\* trees and of earlier queries on the searcher, so that the comparison count
\* is at most N and no point is twice in the returned buffer
C4_ComparedOnce ==
  \A a \in SearcherAddrs :
    calls[a].pc # "idle" =>
      LET c == calls[a]
      IN  /\ \A i, j \in 1 .. Len(c.compared) : i # j => c.compared[i] # c.compared[j]
          /\ Len(c.compared) = searchers[a].searchNumComparisons
          /\ searchers[a].searchNumComparisons <= forest.numData
          /\ c.pc = "done" =>
               /\ c.ret <= forest.numData
               /\ Cardinality(ReturnedIndices(c)) = NumReturned(c)

\* the second query of a searcher on two trees returned after it compared
\* every point, each of which is in both trees
C4_Witness ==
  /\ calls[1].pc = "done"
  /\ calls[1].numQueries = 2
  /\ forest.numTrees = 2
  /\ forest.numData >= 2
  /\ calls[1].ret = forest.numData
  /\ searchers[1].searchNumRecursions > forest.numData

\* C5: with a budget b > 0 the comparison count is at most b at every step of
\* a query and in the value returned, and the query returns the neighbours
\* collected so far
C5_Budget ==
  \A a \in SearcherAddrs :
    (calls[a].pc # "idle" /\ forest.searchMaxNumComparisons > 0) =>
      /\ searchers[a].searchNumComparisons <= forest.searchMaxNumComparisons
      /\ calls[a].pc = "done" =>
           /\ calls[a].ret <= forest.searchMaxNumComparisons
           /\ SortedBestOfCompared(calls[a])

\* a query returned with the budget used up in the middle of a leaf
C5_Witness ==
  /\ calls[1].pc = "done"
  /\ forest.searchMaxNumComparisons > 0
  /\ calls[1].ret = forest.searchMaxNumComparisons
  /\ calls[1].iter < LeafEnd(calls[1])
  /\ calls[1].ret < forest.numData

\* C6: for a returned query with budget b1 > 0 that collected k neighbours,
\* the same query with a budget b2 >= b1 that collects k neighbours has a
\* worst distance that is not larger; and a budget of at least N returns the
\* neighbour list of the exact query
C6_BudgetMonotone ==
  \A a \in SearcherAddrs :
    calls[a].pc = "done" =>
      LET c == calls[a]
          b1 == forest.searchMaxNumComparisons
      IN  /\ (b1 > 0 /\ c.numAddedNeighbors = c.numNeighbors) =>
                \A b2 \in b1 .. forest.numData + 1 :
                  LET r == RunAlone(b2, c)
                  IN  r.numAddedNeighbors = r.numNeighbors =>
                        WorstDistance(r) <= WorstDistance(c)
          /\ b1 = 0 =>
                \A b \in forest.numData .. forest.numData + 1 :
                  SameNeighbors(RunAlone(b, c).neighbors, c.neighbors)

\* a query with budget 1 returned a full buffer which a larger budget improves
C6_Witness ==
  /\ calls[1].pc = "done"
  /\ forest.searchMaxNumComparisons = 1
  /\ calls[1].numAddedNeighbors = calls[1].numNeighbors
  /\ \E b2 \in 2 .. forest.numData :
       WorstDistance(RunAlone(b2, calls[1])) < WorstDistance(calls[1])

\* where the query of an activation stands
Position(c) == <<c.pc, c.numQueries, IF c.pc = "leaf" THEN c.iter ELSE 0 - 1>>

\* a step of a query of searcher a writes nothing but that searcher's record
\* and its caller's buffer
WritesConfined ==
  \A a \in SearcherAddrs :
    Position(calls'[a]) # Position(calls[a]) =>
      /\ forest' = forest
      /\ trees' = trees
      /\ data' = data
      /\ \A b \in SearcherAddrs \ {a} :
           searchers'[b] = searchers[b] /\ calls'[b] = calls[b]

\* a returned query has the result and the count of the same query run alone
SameAsAlone ==
  \A a \in SearcherAddrs :
    calls[a].pc = "done" =>
      LET r == RunAlone(forest.searchMaxNumComparisons, calls[a])
      IN  /\ SameNeighbors(r.neighbors, calls[a].neighbors)
          /\ r.ret = calls[a].ret

\* C7: with the steps of the queries of two searchers interleaved in any
\* order, every query returns the neighbour list and the comparison count it
\* returns when run alone, and a query step writes only its own searcher's
\* record and its caller's buffer, never the forest, the trees or the data
C7_Interleaved == [](SameAsAlone) /\ [][WritesConfined]_vars

\* the second query of searcher 1 returned while a query of searcher 2,
\* started before it, was still in a leaf
C7_Witness ==
  /\ calls[1].pc = "done"
  /\ calls[1].numQueries = 2
  /\ calls[2].pc = "leaf"
  /\ searchers[2].searchNumComparisons > 0
  /\ forest.numData = 2

\* C8: on a forest on which no setter was called the thresholding method is
\* the median and the comparison budget is 0, before the build and after it,
\* so that its queries are exact
C8_Defaults ==
  /\ forest.phase \in {"new", "built"} =>
       /\ forest.thresholdingMethod = VL_KDTREE_MEDIAN
       /\ forest.searchMaxNumComparisons = 0
  /\ forest.phase = "new" => trees = <<>>
  /\ \A a \in SearcherAddrs : calls[a].pc = "done" => calls[a].exactSearch

\* C9: vl_kdforest_delete frees each block of each attached searcher, no
\* block is freed twice, by it or by vl_kdforest_delete_searcher before, and
\* no record is read after it was freed
C9_DeleteFreesOnce ==
  /\ ~heapMem.doubleFree
  /\ ~heapMem.useAfterFree
  /\ forest.phase = "deleted" =>
       \A a \in SearcherAddrs, b \in Blocks : ~heapMem.live[a][b]

\* the forest was deleted with two searchers attached, after two others were
\* deleted one by one
C9_Witness ==
  /\ forest.phase = "deleted"
  /\ forest.numSearchers = 2
  /\ heapMem.numAllocs = 4

\* the leaves of a tree
Leaves(tree) ==
  {n \in 0 .. tree.numUsedNodes - 1 : tree.nodes[n].lowerChild < 0}

LeafBegin(node) == 0 - node.lowerChild - 1

\* the positions of dataIndex a leaf stands for
LeafPositions(node) == LeafBegin(node) .. (0 - node.upperChild - 2)

\* C10: after the build, in every tree dataIndex is a permutation of 0..N-1,
\* every node has both child fields negative or both positive, every leaf
\* stands for a range begin..end-1 with 0 <= begin <= end <= N, and the
\* ranges of the leaves are pairwise disjoint and cover 0..N-1
C10_TreeShape ==
  forest.phase = "built" =>
    \A ti \in DOMAIN trees :
      LET tree == trees[ti]
          all == 0 .. forest.numData - 1
      IN  /\ DOMAIN tree.dataIndex = all
          /\ {tree.dataIndex[i].index : i \in all} = all
          /\ \A n \in 0 .. tree.numUsedNodes - 1 :
               \/ tree.nodes[n].lowerChild < 0 /\ tree.nodes[n].upperChild < 0
               \/ tree.nodes[n].lowerChild > 0 /\ tree.nodes[n].upperChild > 0
          /\ \A n \in Leaves(tree) :
               /\ 0 <= LeafBegin(tree.nodes[n])
               /\ LeafBegin(tree.nodes[n]) <= 0 - tree.nodes[n].upperChild - 1
               /\ 0 - tree.nodes[n].upperChild - 1 <= forest.numData
          /\ \A n1, n2 \in Leaves(tree) :
               n1 # n2 => LeafPositions(tree.nodes[n1]) \cap LeafPositions(tree.nodes[n2]) = {}
          /\ UNION {LeafPositions(tree.nodes[n]) : n \in Leaves(tree)} = all

\* a forest of two trees over three points was built with the mean as
\* threshold, one tree with three leaves
C10_Witness ==
  /\ forest.phase = "built"
  /\ forest.numTrees = 2
  /\ forest.numData = 3
  /\ forest.thresholdingMethod = VL_KDTREE_MEAN
  /\ \E ti \in DOMAIN trees : Cardinality(Leaves(trees[ti])) = 3

\* ------------------------------------------------- the built tree, by node
Internal(tree) ==
  {n \in 0 .. tree.numUsedNodes - 1 : tree.nodes[n].lowerChild > 0}

\* the positions of dataIndex reachable through node n
RECURSIVE PositionsUnder(_, _)
PositionsUnder(tree, n) ==
  IF tree.nodes[n].lowerChild > 0
    THEN PositionsUnder(tree, tree.nodes[n].lowerChild)
           \cup PositionsUnder(tree, tree.nodes[n].upperChild)
    ELSE LeafPositions(tree.nodes[n])

\* the coordinates along dimension d of the points reachable through node n
CoordsUnder(tree, n, d) ==
  {Datum(tree.dataIndex[i].index, d) : i \in PositionsUnder(tree, n)}

\* C11: after the build, at every internal node the points under lowerChild
\* have a coordinate along splitDimension that is at most splitThreshold and
\* the points under upperChild one that is at least splitThreshold, whatever
\* the sorting of the deeper slices did
C11_SplitInvariant ==
  forest.phase = "built" =>
    \A ti \in DOMAIN trees :
      LET tree == trees[ti]
      IN  \A n \in Internal(tree) :
            LET node == tree.nodes[n]
            IN  /\ \A c \in CoordsUnder(tree, node.lowerChild, node.splitDimension) :
                     c <= node.splitThreshold
                /\ \A c \in CoordsUnder(tree, node.upperChild, node.splitDimension) :
                     c >= node.splitThreshold

\* a built tree in which a child of the root is split along another dimension
\* than the root, so that its slice was sorted again by another coordinate
C11_Witness ==
  /\ forest.phase = "built"
  /\ \E ti \in DOMAIN trees :
       LET tree == trees[ti]
       IN  \E n \in Internal(tree) :
             /\ n # 0
             /\ tree.nodes[n].parent = 0
             /\ tree.nodes[n].splitDimension # tree.nodes[0].splitDimension
             /\ PositionsUnder(tree, n) # {}

\* C12: after the bounds pass every internal node has
\* lowerBound <= splitThreshold <= upperBound, and the interval from lowerBound
\* to upperBound of a node contains the coordinate along the node's
\* splitDimension of every point reachable through the node
C12_BoundsContain ==
  forest.phase = "built" =>
    \A ti \in DOMAIN trees :
      LET tree == trees[ti]
      IN  /\ \A n \in Internal(tree) :
               /\ tree.nodes[n].lowerBound <= tree.nodes[n].splitThreshold
               /\ tree.nodes[n].splitThreshold <= tree.nodes[n].upperBound
          /\ \A n \in 0 .. tree.numUsedNodes - 1 :
               \A c \in CoordsUnder(tree, n, tree.nodes[n].splitDimension) :
                 tree.nodes[n].lowerBound <= c /\ c <= tree.nodes[n].upperBound

\* a built tree with an internal node below the root whose interval was cut
\* by an ancestor's threshold and which has points on both sides
C12_Witness ==
  /\ forest.phase = "built"
  /\ \E ti \in DOMAIN trees :
       LET tree == trees[ti]
       IN  \E n \in Internal(tree) :
             /\ n # 0
             /\ \/ tree.nodes[n].lowerBound > MinusInf
                \/ tree.nodes[n].upperBound < PlusInf
             /\ Cardinality(PositionsUnder(tree, n)) >= 2

\* the bound of the cell of node c along dimension d, read off the chain of
\* parents: the threshold of the nearest ancestor that splits d and has c in
\* its upper subtree (for the lower bound) or in its lower subtree (for the
\* upper bound), and an infinity when there is none
RECURSIVE CellBound(_, _, _, _)
CellBound(tree, c, d, side) ==
  IF c = 0 THEN (IF side = "lower" THEN MinusInf ELSE PlusInf)
  ELSE LET a == tree.nodes[c].parent
       IN  IF /\ tree.nodes[a].splitDimension = d
              /\ \/ side = "lower" /\ tree.nodes[a].upperChild = c
                 \/ side = "upper" /\ tree.nodes[a].lowerChild = c
             THEN tree.nodes[a].splitThreshold
             ELSE CellBound(tree, a, d, side)

SetMin(S) == CHOOSE x \in S : \A y \in S : x <= y
SetMax(S) == CHOOSE x \in S : \A y \in S : x >= y

\* C14 as stated: after the bounds pass the interval of every node is the
\* minimum and the maximum, over the points reachable through the node, of
\* the coordinate along the node's splitDimension; at the root these are the
\* global minimum and maximum
C14_TightBounds ==
  forest.phase = "built" =>
    \A ti \in DOMAIN trees :
      LET tree == trees[ti]
      IN  \A n \in 0 .. tree.numUsedNodes - 1 :
            LET coords == CoordsUnder(tree, n, tree.nodes[n].splitDimension)
            IN  coords # {} =>
                  /\ tree.nodes[n].lowerBound = SetMin(coords)
                  /\ tree.nodes[n].upperBound = SetMax(coords)

\* C14 amended: after the bounds pass the interval of every node is the cell
\* of the node along its splitDimension: lowerBound is the threshold of the
\* nearest ancestor splitting that dimension with the node in its upper
\* subtree, or -VL_INFINITY_F without such an ancestor; upperBound is the
\* threshold of the nearest such ancestor with the node in its lower subtree,
\* or +VL_INFINITY_F; the root's interval is -VL_INFINITY_F .. +VL_INFINITY_F
C14_CellBounds ==
  forest.phase = "built" =>
    \A ti \in DOMAIN trees :
      LET tree == trees[ti]
      IN  /\ tree.nodes[0].lowerBound = MinusInf
          /\ tree.nodes[0].upperBound = PlusInf
          /\ \A n \in 0 .. tree.numUsedNodes - 1 :
               /\ tree.nodes[n].lowerBound =
                    CellBound(tree, n, tree.nodes[n].splitDimension, "lower")
               /\ tree.nodes[n].upperBound =
                    CellBound(tree, n, tree.nodes[n].splitDimension, "upper")

\* a built tree with a node whose parent splits another dimension and whose
\* interval has an end set by the grandparent's threshold
C14_Witness ==
  /\ forest.phase = "built"
  /\ \E ti \in DOMAIN trees :
       LET tree == trees[ti]
       IN  \E n \in 1 .. tree.numUsedNodes - 1 :
             LET p == tree.nodes[n].parent
             IN  /\ p # 0
                 /\ tree.nodes[p].splitDimension # tree.nodes[n].splitDimension
                 /\ \/ tree.nodes[n].lowerBound > MinusInf
                    \/ tree.nodes[n].upperBound < PlusInf

\* the builder has just split a node: the call on the lower child is on top of
\* the call stack, above the pending call on the upper child
JustSplit ==
  /\ forest.phase = "building"
  /\ build.pc = "rec"
  /\ Len(build.stack) >= 2
  /\ Top(build.stack).kind = "call"
  /\ Top(Pop(build.stack)).kind = "upper"
  /\ Top(build.stack).nodeIndex # 0
  /\ trees[build.ti].nodes[Top(build.stack).nodeIndex].parent
       = Top(Pop(build.stack)).nodeIndex

\* n^2 times the variance of dimension d over positions dataBegin..dataEnd-1
ScaledVariance(dataIndex, d, dataBegin, dataEnd) ==
  (dataEnd - dataBegin) * SumSlice(dataIndex, d, dataBegin, dataEnd, TRUE)
    - SumSlice(dataIndex, d, dataBegin, dataEnd, FALSE)
        * SumSlice(dataIndex, d, dataBegin, dataEnd, FALSE)

RECURSIVE NodeDepth(_, _)
NodeDepth(tree, n) ==
  IF n = 0 THEN 0 ELSE 1 + NodeDepth(tree, tree.nodes[n].parent)

vl_kdforest_get_depth_of_tree(treeIndex) == trees[treeIndex].depth

\* C17: after the build, the depth reported for a tree is the maximum depth
\* of its leaves, whichever base case of the recursion made the leaf
C17_Depth ==
  forest.phase = "built" =>
    \A ti \in DOMAIN trees :
      vl_kdforest_get_depth_of_tree(ti)
        = SetMax({NodeDepth(trees[ti], n) : n \in Leaves(trees[ti])})

\* C19: at every step of every query of a searcher made after the build the
\* frontier heap holds at most maxNumNodes entries, the number of slots the
\* searcher allocated for it, and no node of a tree is pushed twice in one query
C19_HeapCapacity ==
  \A a \in SearcherAddrs :
    calls[a].pc # "idle" =>
      LET s == searchers[a]
          c == calls[a]
      IN  /\ s.searchHeapNumNodes <= forest.maxNumNodes
          /\ s.searchHeapNumNodes <= s.heapCapacity
          /\ DOMAIN s.searchHeapArray = 0 .. s.searchHeapNumNodes - 1
          /\ \A i, j \in 1 .. Len(c.pushed) : i # j => c.pushed[i] # c.pushed[j]
          /\ Len(c.pushed) <= forest.maxNumNodes

\* a query on two trees has the frontier filled with three entries, the
\* siblings saved on the way down included
C19_Witness ==
  \E a \in SearcherAddrs :
    /\ calls[a].pc # "idle"
    /\ forest.numTrees = 2
    /\ searchers[a].searchHeapNumNodes >= 3
    /\ Len(calls[a].pushed) >= 4

\* the searchers met by following next from a, at most fuel of them
RECURSIVE ChainFrom(_, _)
ChainFrom(a, fuel) ==
  IF a = NULL \/ fuel = 0 THEN <<>>
  ELSE <<a>> \o ChainFrom(searchers[a].next, fuel - 1)

LiveSearchers == {a \in SearcherAddrs : heapMem.live[a]["rec"]}

SearcherChain ==
  IF forest.numSearchers = 0 THEN <<>>
  ELSE ChainFrom(forest.headSearcher, MaxSearchers + 1)

\* numSearchers counts the live searchers, and the list from headSearcher holds
\* each of them once, in the order of their creation, doubly linked
SearcherListWellFormed ==
  LET chain == SearcherChain
  IN  /\ forest.numSearchers = Cardinality(LiveSearchers)
      /\ Len(chain) = forest.numSearchers
      /\ Range(chain) = LiveSearchers
      /\ \A i, j \in 1 .. Len(chain) :
           i < j => searchers[chain[i]].serial < searchers[chain[j]].serial
      /\ chain # <<>> =>
           /\ searchers[chain[1]].previous = NULL
           /\ searchers[chain[Len(chain)]].next = NULL
      /\ \A a \in LiveSearchers :
           searchers[a].next # NULL => searchers[searchers[a].next].previous = a

\* vl_kdforest_get_searcher returns the searcher at position pos of the list
\* for pos < numSearchers and aborts for every other pos
GetSearcherByPosition ==
  \A pos \in 0 .. MaxSearchers :
    vl_kdforest_get_searcher(pos)
      = IF pos < forest.numSearchers THEN {SearcherChain[pos + 1]} ELSE {Aborted}

\* C18: after any sequence of calls of vl_kdforest_new_searcher and
\* vl_kdforest_delete_searcher, numSearchers is the number of live searchers,
\* the list from headSearcher visits exactly the live searchers, once each, in
\* the order of creation, with the head's previous and the tail's next null
\* and s->next->previous = s, and vl_kdforest_get_searcher(pos) returns the
\* searcher at position pos for pos < numSearchers and aborts otherwise
C18_SearcherList ==
  forest.phase \in {"new", "built"} =>
    /\ SearcherListWellFormed
    /\ GetSearcherByPosition

RECURSIVE SumUsedNodes(_)
SumUsedNodes(ti) ==
  IF ti < 0 THEN 0 ELSE trees[ti].numUsedNodes + SumUsedNodes(ti - 1)

\* the assertion of vl_kdtree_node_new has not failed
AssertionNeverFails == build.pc # "abort"

AllPointsIdentical == \A i, j \in DOMAIN data : data[i] = data[j]

\* C13: during and after a build on N >= 1 points every tree has
\* numUsedNodes <= numAllocatedNodes = 2N - 1, so that the assertion of
\* vl_kdtree_node_new never fails, maxNumNodes is the sum of numUsedNodes over
\* the trees, and a data set of identical points gives one node per tree;
\* for both thresholding methods
C13_NodeBudget ==
  /\ AssertionNeverFails
  /\ forest.phase \in {"building", "built"} =>
       \A ti \in DOMAIN trees :
         /\ trees[ti].numAllocatedNodes = 2 * forest.numData - 1
         /\ trees[ti].numUsedNodes <= trees[ti].numAllocatedNodes
  /\ forest.phase = "built" =>
       /\ forest.maxNumNodes = SumUsedNodes(forest.numTrees - 1)
       /\ AllPointsIdentical => \A ti \in DOMAIN trees : trees[ti].numUsedNodes = 1

\* C15: with the mean as threshold, a split leaves both children a slice that
\* is not empty, and when the mean is below every value of the slice, or at or
\* above every value, the split is the one of the median, at
\* (dataBegin + dataEnd - 1) / 2; for slices that start at 0 too
C15_MeanFallback ==
  JustSplit /\ forest.thresholdingMethod = VL_KDTREE_MEAN =>
    LET tree == trees[build.ti]
        lower == Top(build.stack)
        upper == Top(Pop(build.stack))
        node == tree.nodes[upper.nodeIndex]
        dataBegin == lower.dataBegin
        dataEnd == upper.dataEnd
        values == {Datum(tree.dataIndex[i].index, node.splitDimension) :
                     i \in dataBegin .. dataEnd - 1}
        mean == SliceStats(tree.dataIndex, node.splitDimension, dataBegin, dataEnd).mean
        medianIndex == (dataBegin + dataEnd - 1) \div 2
    IN  /\ lower.dataBegin < lower.dataEnd
        /\ upper.dataBegin < upper.dataEnd
        /\ (\A v \in values : mean < v) \/ (\A v \in values : v <= mean) =>
             /\ lower.dataEnd = medianIndex + 1
             /\ node.splitThreshold
                  = Datum(tree.dataIndex[medianIndex].index, node.splitDimension)

====
